---- MODULE Spec2Model ----
(***************************************************************************)
(* A model of scraper.py: the batch pipeline                               *)
(*   fetch_schedule_data -> extract_technical_papers ->                    *)
(*   group_papers_by_session -> write_urls_json -> generate_html           *)
(* and the sidecar file url.json that survives between runs.               *)
(*                                                                         *)
(* Representation.                                                         *)
(*  - A text (title, url, abstract) is a sequence of tokens; a token is a  *)
(*    plain character or one HTML character reference such as "&amp;".    *)
(*  - Fetched markup is a sequence of chunks: a chunk is either a matched  *)
(*    image-cell/title-cell block or other markup that the block pattern   *)
(*    does not match.  The empty sequence is the empty string.             *)
(*  - A session identifier "sess<digits>" is the sequence of its digits.   *)
(*  - A Python dict is a sequence of [key, val] entries in insertion       *)
(*    order; assigning to an existing key keeps the key's position.        *)
(*  - A session display name is [text, num]: the string text followed by   *)
(*    the decimal digits num (num is empty except for "Session <n>").      *)
(*  - A JSON value read from url.json is [t, s]: t is "str" for a string   *)
(*    with content s, "other" for any value that is not a string, and      *)
(*    "missing" for a key that is not there.                               *)
(* The authors and the thumbnail of a paper are carried by no operation    *)
(* modelled here and are left out of the paper record.                     *)
(***************************************************************************)
EXTENDS Integers, Sequences, FiniteSets, TLC

VARIABLES
    pc,                 \* position of main()
    i,                  \* fetch_schedule_data: index of the next date in DATES
    all_html,           \* fetch_schedule_data: the text accumulated so far
    log,                \* history: one entry per date attempted, in order
    papers,             \* result of extract_technical_papers
    papers_by_session,  \* result of group_papers_by_session
    url_json,           \* the file url.json
    debug_raw,          \* the file debug_raw.html
    papers_html,        \* the file papers.html
    old,                \* history: the three files as the run found them
    written,            \* history: the files this run has written, in order
    rerun,              \* history: this run groups the same papers as the last
    localStorage,       \* browser: the edits object stored under editsKey
    tabs,               \* browser: per tab, the document and the script's state
    download,           \* browser: the file the last export handed to the user
    last_save           \* history: the last edit saved, url.json as it was then
                        \* and the edits as the save left them

vars == <<pc, i, all_html, log, papers, papers_by_session,
          url_json, debug_raw, papers_html, old, written, rerun,
          localStorage, tabs, download, last_save>>

\* the state of the browser, which the pipeline does not touch
browser_vars == <<localStorage, tabs, download, last_save>>

----------------------------------------------------------------------------
(* Bounds of the model *)

MaxPapers == 6      \* SpecGroup: longest list of extracted papers
MaxBlocks == 4      \* SpecExtract: most chunks in the fetched markup
MaxStored == 2      \* SpecSidecar: most records in the stored url.json

----------------------------------------------------------------------------
(* Sequences and dicts *)

Range(s) == { s[k] : k \in DOMAIN s }

SeqsUpTo(S, n) == UNION { [1..k -> S] : k \in 0..n }

RECURSIVE Flatten(_)
Flatten(ss) == IF ss = <<>> THEN <<>> ELSE Head(ss) \o Flatten(Tail(ss))

DictKeys(d) == { d[k].key : k \in DOMAIN d }

DictIndex(d, key) == CHOOSE k \in DOMAIN d : d[k].key = key

DictGet(d, key) == d[DictIndex(d, key)].val

\* d[key] = val
DictSet(d, key, val) ==
    IF key \in DictKeys(d)
    THEN [d EXCEPT ![DictIndex(d, key)].val = val]
    ELSE Append(d, [key |-> key, val |-> val])

----------------------------------------------------------------------------
(* Texts *)

Whitespace == {" "}

\* html.unescape on one token: a character reference becomes its character
unescape_token(t) ==
    CASE t = "&amp;" -> "&"
      [] t = "&#38;" -> "&"
      [] OTHER -> t

unescape(s) == [k \in DOMAIN s |-> unescape_token(s[k])]

RECURSIVE lstrip(_)
lstrip(s) == IF s # <<>> /\ Head(s) \in Whitespace THEN lstrip(Tail(s)) ELSE s

RECURSIVE rstrip(_)
rstrip(s) ==
    IF s # <<>> /\ s[Len(s)] \in Whitespace
    THEN rstrip(SubSeq(s, 1, Len(s) - 1))
    ELSE s

\* str.strip()
strip(s) == rstrip(lstrip(s))

\* int() of a string of decimal digits (Python integers do not overflow)
RECURSIVE int_from(_, _)
int_from(digits, acc) ==
    IF digits = <<>> THEN acc
    ELSE int_from(Tail(digits), 10 * acc + Head(digits))

int(digits) == int_from(digits, 0)

\* the decimal digits str() gives a natural number
RECURSIVE str(_)
str(n) == IF n < 10 THEN <<n>> ELSE Append(str(n \div 10), n % 10)

----------------------------------------------------------------------------
(* group_papers_by_session *)

SESSION_NAMES ==
    <<1,0,4>> :> "3D Reconstruction & Intelligent Geometry" @@
    <<1,0,5>> :> "Dynamic Generative Video: From Synthesis to Real-Time Editing" @@
    <<1,0,6>> :> "Global Illumination & Real-Time Rendering" @@
    <<1,0,7>> :> "High-Performance Simulation Algorithms" @@
    <<1,0,8>> :> "Mesh Processing" @@
    <<1,0,9>> :> "Camera Control and Directed Storytelling in Video Generation" @@
    <<1,1,0>> :> "Material & Texture Modeling" @@
    <<1,1,1>> :> "Neural & Implicit Representations for Geometry and Physics" @@
    <<1,1,2>> :> "Creating Digital Humans" @@
    <<1,1,3>> :> "Smart Process Planning for Manufacturing" @@
    <<1,1,4>> :> "Visibility & Real-Time Rendering" @@
    <<1,1,5>> :> "Physically Based Simulation & Dynamic Environments" @@
    <<1,1,6>> :> "Audio-Driven Facial and Portrait Animation" @@
    <<1,1,7>> :> "Computational Design & Fabricability" @@
    <<1,1,8>> :> "Computational Photography & Cameras" @@
    <<1,1,9>> :> "Sampling, Reconstruction & Variance Reduction" @@
    <<1,2,0>> :> "Generative 3D Shape Synthesis" @@
    <<1,2,1>> :> "Image Restoration, Editing & Enhancement" @@
    <<1,2,2>> :> "Differentiable Rendering & Applications" @@
    <<1,2,3>> :> "Perception and Performance in AR/VR Systems" @@
    <<1,2,4>> :> "4D Gaussian Splatting for Dynamic Scene Reconstruction" @@
    <<1,2,5>> :> "Garment & Cloth Modeling, Simulation and Rendering" @@
    <<1,2,6>> :> "3D Reconstruction & Rendering" @@
    <<1,2,7>> :> "Animation, Simulation & Deformation" @@
    <<1,2,8>> :> "Neural Fields and Surface Reconstruction" @@
    <<1,2,9>> :> "Vector Graphics & Sketches" @@
    <<1,3,0>> :> "Intelligent CAD: B-Reps, NURBs & Splines" @@
    <<1,3,1>> :> "It's All About the Motion" @@
    <<1,3,2>> :> "Compositional and Layout-Guided Image Synthesis" @@
    <<1,3,3>> :> "Computational Design & Geometry" @@
    <<1,3,4>> :> "Hair & Faces" @@
    <<1,3,5>> :> "Differentiable Physics and Fabrication-Aware Optimization" @@
    <<1,3,6>> :> "Generative Scenes & Panoramas" @@
    <<1,3,7>> :> "Human & Robot Animation & Behavior" @@
    <<1,3,8>> :> "4D & Dynamic Scene Generation and Reconstruction" @@
    <<1,3,9>> :> "Advanced Light Transport & PDE Solvers" @@
    <<1,4,0>> :> "Efficient and Robust Algorithms for Geometric Computing" @@
    <<1,4,1>> :> "3D Reconstruction & View Synthesis" @@
    <<1,4,2>> :> "Animating Images, Sketches and Text" @@
    <<1,4,3>> :> "Real-Time Rendering & System Optimization" @@
    <<1,4,4>> :> "Cameras, Sensors, and Acquisition" @@
    <<1,4,5>> :> "Generative 3D Modeling" @@
    <<1,4,6>> :> "Motion Transfer & Control" @@
    <<1,4,7>> :> "Advanced Fluid and Multiphase Simulation" @@
    <<1,4,8>> :> "Material & Reflectance Modeling" @@
    <<1,4,9>> :> "Objects in Parts & Articulation" @@
    <<1,5,0>> :> "Text-to-Image & Customization" @@
    <<1,5,1>> :> "Expressive and Structured Gaussian Representations" @@
    <<1,5,2>> :> "Generative Synthesis, Editing & Customization" @@
    <<1,5,3>> :> "Human Motion Synthesis & Interaction" @@
    <<1,5,4>> :> "Shape Abstraction and Structural Analysis" @@
    <<1,5,5>> :> "Advanced Representations and Rendering for 3D Scenes" @@
    <<1,5,6>> :> "Diffusion-Based Image Editing & Manipulation" @@
    <<1,5,9>> :> "Geometry Processing & Representations"

\* a display name taken from the table
TableName(text) == [text |-> text, num |-> <<>>]

\* f"Session {session_num}"
SessionName(session_num) == [text |-> "Session ", num |-> str(session_num)]

OtherPapers == [text |-> "Other Papers", num |-> <<>>]

\* by_session[p['session_id']].append(p) on a defaultdict(list)
RECURSIVE by_session_from(_, _)
by_session_from(ps, d) ==
    IF ps = <<>> THEN d
    ELSE LET p == Head(ps)
             sid == p.session_id
             prev == IF sid \in DictKeys(d) THEN DictGet(d, sid) ELSE <<>>
         IN  by_session_from(Tail(ps), DictSet(d, sid, Append(prev, p)))

by_session(ps) == by_session_from(ps, <<>>)

\* key=lambda x: int(x[0].replace('sess', ''))
sort_key(entry) == int(entry.key)

\* one step of a stable sort: e goes after every entry whose key is <= its key
RECURSIVE insert_sorted(_, _)
insert_sorted(s, e) ==
    IF s = <<>> THEN <<e>>
    ELSE IF sort_key(Head(s)) <= sort_key(e)
         THEN <<Head(s)>> \o insert_sorted(Tail(s), e)
         ELSE <<e>> \o s

\* mutant: the buckets stay in insertion order
sorted_Unsorted(d) == d

\* sorted(by_session.items(), key=...): ascending and stable
RECURSIVE sorted(_)
sorted(d) ==
    IF d = <<>> THEN <<>>
    ELSE insert_sorted(sorted(SubSeq(d, 1, Len(d) - 1)), d[Len(d)])

\* mutant: the size rule is applied before the table is consulted
session_name_for_SizeFirst(session_id, paper_list) ==
    IF Len(paper_list) < 3
    THEN [text |-> "", num |-> <<>>]
    ELSE IF session_id \in DOMAIN SESSION_NAMES
         THEN TableName(SESSION_NAMES[session_id])
         ELSE SessionName(int(session_id))

\* the branch taken for one session: its display name, or none (text "")
\* when its papers are deferred to the catch-all bucket
session_name_for(session_id, paper_list) ==
    IF session_id \in DOMAIN SESSION_NAMES
    THEN TableName(SESSION_NAMES[session_id])
    ELSE IF Len(paper_list) >= 3
         THEN SessionName(int(session_id))
         ELSE [text |-> "", num |-> <<>>]

\* the loop over sorted_sessions
RECURSIVE name_sessions(_, _, _)
name_sessions(ss, result, misc_papers) ==
    IF ss = <<>> THEN [result |-> result, misc_papers |-> misc_papers]
    ELSE LET session_id == Head(ss).key
             paper_list == Head(ss).val
             session_name == session_name_for(session_id, paper_list)
         IN  IF session_name.text # ""
             THEN name_sessions(Tail(ss),
                      DictSet(result, session_name, paper_list), misc_papers)
             ELSE name_sessions(Tail(ss), result, misc_papers \o paper_list)

\* mutant: the catch-all bucket is written even when it is empty
group_papers_by_session_AlwaysOther(ps) ==
    LET r == name_sessions(sorted(by_session(ps)), <<>>, <<>>)
    IN  DictSet(r.result, OtherPapers, r.misc_papers)

group_papers_by_session(ps) ==
    LET r == name_sessions(sorted(by_session(ps)), <<>>, <<>>)
    IN  IF r.misc_papers # <<>>
        THEN DictSet(r.result, OtherPapers, r.misc_papers)
        ELSE r.result

----------------------------------------------------------------------------
(* extract_technical_papers *)

\* markup between blocks: paper_pattern does not match it
TextChunk == [kind |-> "text", anchor |-> FALSE, id |-> "", sess |-> <<>>, raw |-> <<>>]

\* a match of paper_pattern; anchor says whether the title cell holds the
\* id+session link, whose groups are id, sess and raw (the link text)
Block(anchor, id, sess, raw) ==
    [kind |-> "block", anchor |-> anchor, id |-> id, sess |-> sess, raw |-> raw]

\* title = unescape(link_match.group(3).strip())
title_of(raw) == unescape(strip(raw))

\* mutant: duplicates are recognised by the link text before it is decoded
extract_block_RawSeen(c, found, seen_titles) ==
    IF ~c.anchor THEN [found |-> found, seen_titles |-> seen_titles]
    ELSE IF strip(c.raw) \in seen_titles
    THEN [found |-> found, seen_titles |-> seen_titles]
    ELSE [found |-> Append(found, [id |-> c.id, session_id |-> c.sess,
                                   title |-> title_of(c.raw)]),
          seen_titles |-> seen_titles \cup {strip(c.raw)}]

\* mutant: the title is registered as seen before the anchor is required
extract_block_SeenFirst(c, found, seen_titles) ==
    LET title == title_of(c.raw)
    IN  IF title \in seen_titles THEN [found |-> found, seen_titles |-> seen_titles]
        ELSE IF ~c.anchor
        THEN [found |-> found, seen_titles |-> seen_titles \cup {title}]
        ELSE [found |-> Append(found, [id |-> c.id, session_id |-> c.sess,
                                       title |-> title]),
              seen_titles |-> seen_titles \cup {title}]

\* the body of the loop for one match of paper_pattern
extract_block(c, found, seen_titles) ==
    LET title == title_of(c.raw)
    IN  IF ~c.anchor THEN [found |-> found, seen_titles |-> seen_titles]
        ELSE IF title \in seen_titles
        THEN [found |-> found, seen_titles |-> seen_titles]
        ELSE [found |-> Append(found, [id |-> c.id, session_id |-> c.sess,
                                       title |-> title]),
              seen_titles |-> seen_titles \cup {title}]

\* the loop over re.finditer(paper_pattern, html_content)
RECURSIVE extract_from(_, _, _)
extract_from(chunks, found, seen_titles) ==
    IF chunks = <<>> THEN found
    ELSE IF Head(chunks).kind # "block"
    THEN extract_from(Tail(chunks), found, seen_titles)
    ELSE LET r == extract_block(Head(chunks), found, seen_titles)
         IN  extract_from(Tail(chunks), r.found, r.seen_titles)

extract_technical_papers(html_content) == extract_from(html_content, <<>>, {})

----------------------------------------------------------------------------
(* url.json: _load_existing_meta, write_urls_json, load_*_for_html *)

Str(s) == [t |-> "str", s |-> s]

\* url.json as data.  kind is "absent" (no file), "bad" (json.load raises),
\* "scalar" (valid JSON, neither list nor object), "list" or "map"; items are
\* the records in file order.  A record is [obj, id, title, session, url,
\* abstract]: obj says whether it is a JSON object; in a map the id is the key.
File(kind, items) == [kind |-> kind, items |-> items]

AbsentFile == File("absent", <<>>)

\* url if isinstance(url, str) else ""   (item.get(..., "") when missing)
str_or_empty(v) == IF v.t = "str" THEN v.s ELSE <<>>

meta_of(item) == [url |-> str_or_empty(item.url), abstract |-> str_or_empty(item.abstract)]

\* meta_map[pid] = ...
MapSet(m, pid, v) == [k \in DOMAIN m \cup {pid} |-> IF k = pid THEN v ELSE m[k]]

EmptyMap == [k \in {} |-> <<>>]

\* mutant: a record that is skipped ends the loop (break for continue)
RECURSIVE load_list_Break(_, _)
load_list_Break(items, meta_map) ==
    IF items = <<>> THEN meta_map
    ELSE LET item == Head(items)
         IN  IF ~item.obj THEN meta_map
             ELSE IF item.id.t = "str"
             THEN load_list_Break(Tail(items), MapSet(meta_map, item.id.s, meta_of(item)))
             ELSE meta_map

RECURSIVE load_list(_, _)
load_list(items, meta_map) ==
    IF items = <<>> THEN meta_map
    ELSE LET item == Head(items)
         IN  IF ~item.obj THEN load_list(Tail(items), meta_map)
             ELSE IF item.id.t = "str"
             THEN load_list(Tail(items), MapSet(meta_map, item.id.s, meta_of(item)))
             ELSE load_list(Tail(items), meta_map)

RECURSIVE load_dict(_, _)
load_dict(items, meta_map) ==
    IF items = <<>> THEN meta_map
    ELSE LET item == Head(items)
         IN  IF item.id.t = "str" /\ item.obj
             THEN load_dict(Tail(items), MapSet(meta_map, item.id.s, meta_of(item)))
             ELSE load_dict(Tail(items), meta_map)

_load_existing_meta(file) ==
    CASE file.kind = "list" -> load_list(file.items, EmptyMap)
      [] file.kind = "map" -> load_dict(file.items, EmptyMap)
      [] OTHER -> EmptyMap

\* pid = f"papers_{paper['id']}"
pid_of(paper) == "papers_" \o paper.id

\* mutant: the stored record is looked up under a key no record has, so
\* nothing is carried forward
prev_or_empty_NeverFound(existing, pid, field) == <<>>

\* prev.get(field) or ""   with prev = existing.get(pid, {})
prev_or_empty(existing, pid, field) ==
    IF pid \in DOMAIN existing THEN existing[pid][field] ELSE <<>>

\* mutant: the stored url is not carried into the new record
entry_for_NoUrl(existing, session_name, paper) ==
    [obj |-> TRUE,
     id |-> Str(pid_of(paper)),
     title |-> paper.title,
     session |-> session_name,
     url |-> Str(<<>>),
     abstract |-> Str(prev_or_empty(existing, pid_of(paper), "abstract"))]

entry_for(existing, session_name, paper) ==
    [obj |-> TRUE,
     id |-> Str(pid_of(paper)),
     title |-> paper.title,
     session |-> session_name,
     url |-> Str(prev_or_empty(existing, pid_of(paper), "url")),
     abstract |-> Str(prev_or_empty(existing, pid_of(paper), "abstract"))]

\* the entries of one session, in paper order
session_entries(existing, session) ==
    [k \in DOMAIN session.val |-> entry_for(existing, session.key, session.val[k])]

\* mutant: the new entries are added to the stored records instead of
\* replacing them
write_urls_json_Keep(by_name, file) ==
    LET existing == _load_existing_meta(file)
    IN  File("list",
             (IF file.kind = "list" THEN file.items ELSE <<>>)
             \o Flatten([k \in DOMAIN by_name |-> session_entries(existing, by_name[k])]))

\* the content write_urls_json leaves in url.json, given the file it finds
write_urls_json(by_name, file) ==
    LET existing == _load_existing_meta(file)
    IN  File("list",
             Flatten([k \in DOMAIN by_name |-> session_entries(existing, by_name[k])]))

\* mutant: a value counts as present when it is not the empty string
nonblank_map_NonEmpty(meta_map, field) ==
    LET keep == { pid \in DOMAIN meta_map : meta_map[pid][field] # <<>> }
    IN  [pid \in keep |-> strip(meta_map[pid][field])]

\* the non-blank values of one field, stripped
nonblank_map(meta_map, field) ==
    LET keep == { pid \in DOMAIN meta_map : strip(meta_map[pid][field]) # <<>> }
    IN  [pid \in keep |-> strip(meta_map[pid][field])]

load_urls_for_html(file) == nonblank_map(_load_existing_meta(file), "url")

load_abstracts_for_html(file) == nonblank_map(_load_existing_meta(file), "abstract")

----------------------------------------------------------------------------
(* generate_html: the page as data *)

\* url_map.get(pid, "").strip()
get_stripped(m, pid) == IF pid \in DOMAIN m THEN strip(m[pid]) ELSE <<>>

\* mutant: the lookups are consulted under the bare paper id
card_for_BareId(url_map, abstract_map, paper) ==
    [pid |-> pid_of(paper),
     title |-> paper.title,
     url |-> get_stripped(url_map, paper.id),
     abstract |-> get_stripped(abstract_map, paper.id)]

\* one card: the title is a link iff url is non-empty, the abstract body is
\* the placeholder iff abstract is empty
card_for(url_map, abstract_map, paper) ==
    [pid |-> pid_of(paper),
     title |-> paper.title,
     url |-> get_stripped(url_map, pid_of(paper)),
     abstract |-> get_stripped(abstract_map, pid_of(paper))]

section_for(url_map, abstract_map, session) ==
    [session |-> session.key,
     cards |-> [k \in DOMAIN session.val |->
                   card_for(url_map, abstract_map, session.val[k])]]

RECURSIVE sum_len(_)
sum_len(d) == IF d = <<>> THEN 0 ELSE Len(Head(d).val) + sum_len(Tail(d))

generate_html(by_name, file) ==
    LET url_map == load_urls_for_html(file)
        abstract_map == load_abstracts_for_html(file)
    IN  [total_papers |-> sum_len(by_name),
         total_sessions |-> Len(by_name),
         sections |-> [k \in DOMAIN by_name |->
                          section_for(url_map, abstract_map, by_name[k])]]

\* the cards of the page, in the order they are rendered
Cards(page) == Flatten([b \in DOMAIN page.sections |-> page.sections[b].cards])

----------------------------------------------------------------------------
(* fetch_schedule_data and main *)

DATES == <<"2025-12-13", "2025-12-14", "2025-12-15", "2025-12-16",
           "2025-12-17", "2025-12-18", "2025-12-19">>

\* what `except Exception` catches: urlopen fails, the read times out,
\* or the body is not UTF-8
FetchErrors == {"network", "timeout", "decode"}

\* debug_raw.html and papers.html as data
NoDebug == [exists |-> FALSE, content |-> <<>>]

NoPage == [exists |-> FALSE,
           page |-> [total_papers |-> 0, total_sessions |-> 0, sections |-> <<>>]]

Files == [url_json |-> url_json, debug_raw |-> debug_raw, papers_html |-> papers_html]

\* one pass of the loop: the request for DATES[i] succeeds with `body`
fetch_ok(body) ==
    /\ pc = "fetch"
    /\ i <= Len(DATES)
    /\ all_html' = all_html \o body
    /\ log' = Append(log, [date |-> DATES[i], ok |-> TRUE, body |-> body])
    /\ i' = i + 1
    /\ UNCHANGED <<pc, papers, papers_by_session, url_json, debug_raw,
                   papers_html, old, written, rerun, browser_vars>>

\* mutant: the try statement encloses the loop, so the first error ends it
fetch_error_EndsLoop(error) ==
    /\ pc = "fetch"
    /\ i <= Len(DATES)
    /\ error \in FetchErrors
    /\ log' = Append(log, [date |-> DATES[i], ok |-> FALSE, body |-> <<>>])
    /\ pc' = "check"
    /\ UNCHANGED <<i, all_html, papers, papers_by_session, url_json, debug_raw,
                   papers_html, old, written, rerun, browser_vars>>

\* mutant: the exception of a request is not caught and ends the run
fetch_error_Raises(error) ==
    /\ pc = "fetch"
    /\ i <= Len(DATES)
    /\ error \in FetchErrors
    /\ log' = Append(log, [date |-> DATES[i], ok |-> FALSE, body |-> <<>>])
    /\ pc' = "failed"
    /\ UNCHANGED <<i, all_html, papers, papers_by_session, url_json, debug_raw,
                   papers_html, old, written, rerun, browser_vars>>

\* one pass of the loop: the request for DATES[i] raises `error`
fetch_error(error) ==
    /\ pc = "fetch"
    /\ i <= Len(DATES)
    /\ error \in FetchErrors
    /\ log' = Append(log, [date |-> DATES[i], ok |-> FALSE, body |-> <<>>])
    /\ i' = i + 1
    /\ UNCHANGED <<pc, all_html, papers, papers_by_session, url_json, debug_raw,
                   papers_html, old, written, rerun, browser_vars>>

\* return all_html
fetch_return ==
    /\ pc = "fetch"
    /\ i > Len(DATES)
    /\ pc' = "check"
    /\ UNCHANGED <<i, all_html, log, papers, papers_by_session, url_json,
                   debug_raw, papers_html, old, written, rerun, browser_vars>>

\* if not html_content: return
main_abort ==
    /\ pc = "check"
    /\ all_html = <<>>
    /\ pc' = "aborted"
    /\ UNCHANGED <<i, all_html, log, papers, papers_by_session, url_json,
                   debug_raw, papers_html, old, written, rerun, browser_vars>>

\* mutant: the raw text is saved before it is tested
main_save_debug_Untested ==
    /\ pc = "check"
    /\ debug_raw' = [exists |-> TRUE, content |-> all_html]
    /\ written' = Append(written, "debug_raw.html")
    /\ pc' = "extract"
    /\ UNCHANGED <<i, all_html, log, papers, papers_by_session, url_json,
                   papers_html, old, rerun, browser_vars>>

\* with open("debug_raw.html", "w") ...
main_save_debug ==
    /\ pc = "check"
    /\ all_html # <<>>
    /\ debug_raw' = [exists |-> TRUE, content |-> all_html]
    /\ written' = Append(written, "debug_raw.html")
    /\ pc' = "extract"
    /\ UNCHANGED <<i, all_html, log, papers, papers_by_session, url_json,
                   papers_html, old, rerun, browser_vars>>

main_extract ==
    /\ pc = "extract"
    /\ papers' = extract_technical_papers(all_html)
    /\ pc' = "group"
    /\ UNCHANGED <<i, all_html, log, papers_by_session, url_json, debug_raw,
                   papers_html, old, written, rerun, browser_vars>>

main_group ==
    /\ pc = "group"
    /\ papers_by_session' = group_papers_by_session(papers)
    /\ pc' = "write"
    /\ UNCHANGED <<i, all_html, log, papers, url_json, debug_raw,
                   papers_html, old, written, rerun, browser_vars>>

\* mutant: the error of json.load is not caught and ends the run
main_write_urls_json_Raises ==
    /\ pc = "write"
    /\ IF url_json.kind = "bad"
       THEN /\ pc' = "failed"
            /\ UNCHANGED <<url_json, written>>
       ELSE /\ url_json' = write_urls_json(papers_by_session, url_json)
            /\ written' = Append(written, "url.json")
            /\ pc' = "render"
    /\ UNCHANGED <<i, all_html, log, papers, papers_by_session, debug_raw,
                   papers_html, old, rerun, browser_vars>>

main_write_urls_json ==
    /\ pc = "write"
    /\ url_json' = write_urls_json(papers_by_session, url_json)
    /\ written' = Append(written, "url.json")
    /\ pc' = "render"
    /\ UNCHANGED <<i, all_html, log, papers, papers_by_session, debug_raw,
                   papers_html, old, rerun, browser_vars>>

\* output_html = generate_html(...); with open(output_path, "w") ...
main_generate_html ==
    /\ pc = "render"
    /\ papers_html' = [exists |-> TRUE, page |-> generate_html(papers_by_session, url_json)]
    /\ written' = Append(written, "papers.html")
    /\ pc' = "done"
    /\ UNCHANGED <<i, all_html, log, papers, papers_by_session, url_json,
                   debug_raw, old, rerun, browser_vars>>

----------------------------------------------------------------------------
(* The script of the rendered page *)

\* the browser tabs that can show the page
Tabs == {"tab1", "tab2"}

Fields == {"url", "abstract"}

\* null, for currentEdit.paperId and currentEdit.field
Null == "null"

\* the edits object: paper id -> field -> value.  {} when nothing is stored
NoEdits == [pid \in {} |-> <<>>]

\* an element the card may or may not have, with its href
NoLink == [has |-> FALSE, href |-> <<>>]

Link(href) == [has |-> TRUE, href |-> href]

\* the text of the abstract body when there is no abstract
Placeholder == <<"Abstract not available yet (you can paste it into url.json).">>

\* paper_url.replace('"', "%22")
safe_url(s) == [k \in DOMAIN s |-> IF s[k] = "\"" THEN "%22" ELSE s[k]]

\* html.escape, token by token: & (also the & that starts a character
\* reference in the text), <, > and the quotes are replaced
html_escape(s) ==
    [k \in DOMAIN s |->
        CASE s[k] = "&" -> "&amp;"
          [] s[k] \in {"&amp;", "&#38;"} -> "&amp;" \o SubSeq(s[k], 2, Len(s[k]))
          [] s[k] = "<" -> "&lt;"
          [] s[k] = ">" -> "&gt;"
          [] s[k] = "\"" -> "&quot;"
          [] s[k] = "'" -> "&#x27;"
          [] OTHER -> s[k]]

\* the text node the browser builds from the escaped markup of the page
text_content(s) ==
    [k \in DOMAIN s |->
        CASE s[k] = "&amp;" -> "&"
          [] s[k] = "&amp;amp;" -> "&amp;"
          [] s[k] = "&amp;#38;" -> "&#38;"
          [] s[k] = "&lt;" -> "<"
          [] s[k] = "&gt;" -> ">"
          [] s[k] = "&quot;" -> "\""
          [] s[k] = "&#x27;" -> "'"
          [] OTHER -> s[k]]

\* String.prototype.trim
trim(s) == rstrip(lstrip(s))

\* the elements of one card that the script reads or changes
card_dom(card) ==
    [pid |-> card.pid,
     title_link |-> IF card.url # <<>> THEN Link(safe_url(card.url)) ELSE NoLink,
     paper_link |-> IF card.url # <<>> THEN Link(safe_url(card.url)) ELSE NoLink,
     body |-> IF card.abstract # <<>> THEN text_content(html_escape(card.abstract))
              ELSE Placeholder,
     missing |-> card.abstract = <<>>]

\* the document as parsed, before any script has run
document_of(page) == [k \in DOMAIN Cards(page) |-> card_dom(Cards(page)[k])]

\* document.querySelector(`[data-paper-id="..."]`): the first card with the
\* id, 0 when there is none
querySelector(dom, paperId) ==
    IF \E k \in DOMAIN dom : dom[k].pid = paperId
    THEN CHOOSE k \in DOMAIN dom :
            /\ dom[k].pid = paperId
            /\ \A j \in 1..(k - 1) : dom[j].pid # paperId
    ELSE 0

\* variant: updateUI with a branch that takes the Open link away for an
\* empty url (the code has none); it tells the failures that stem from the
\* missing branch from others
updateUI_Unlink(dom, paperId, field, value) ==
    LET k == querySelector(dom, paperId)
    IN  IF k = 0 THEN dom
        ELSE IF field = "url"
        THEN [dom EXCEPT ![k].paper_link = IF value # <<>> THEN Link(value) ELSE NoLink,
                         ![k].title_link = IF @.has THEN Link(value) ELSE @]
        ELSE IF field = "abstract"
        THEN [dom EXCEPT ![k].body = IF value # <<>> THEN value ELSE Placeholder,
                         ![k].missing = (value = <<>>)]
        ELSE dom

updateUI(dom, paperId, field, value) ==
    LET k == querySelector(dom, paperId)
    IN  IF k = 0 THEN dom
        ELSE IF field = "url"
        THEN [dom EXCEPT ![k].paper_link = IF value # <<>> THEN Link(value) ELSE @,
                         ![k].title_link = IF @.has THEN Link(value) ELSE @]
        ELSE IF field = "abstract"
        THEN [dom EXCEPT ![k].body = IF value # <<>> THEN value ELSE Placeholder,
                         ![k].missing = (value = <<>>)]
        ELSE dom

\* edits[paperId][field] !== undefined
has_edit(edits, paperId, field) ==
    paperId \in DOMAIN edits /\ field \in DOMAIN edits[paperId]

\* mutant: the stored object is replaced by one that holds the new entry alone
set_edit_Only(edits, paperId, field, value) ==
    MapSet(NoEdits, paperId, MapSet(NoEdits, field, value))

\* if (!edits[paperId]) edits[paperId] = {}; edits[paperId][field] = value
set_edit(edits, paperId, field, value) ==
    LET fields == IF paperId \in DOMAIN edits THEN edits[paperId] ELSE NoEdits
    IN  MapSet(edits, paperId, MapSet(fields, field, value))

\* the loop body of the DOMContentLoaded handler
apply_fields(dom, paperId, fields) ==
    LET with_url == IF "url" \in DOMAIN fields
                    THEN updateUI(dom, paperId, "url", fields.url) ELSE dom
    IN  IF "abstract" \in DOMAIN fields
        THEN updateUI(with_url, paperId, "abstract", fields.abstract) ELSE with_url

\* the DOMContentLoaded handler over the entries not yet applied (entries of
\* different papers change different cards, so their order is immaterial)
RECURSIVE apply_edits(_, _, _)
apply_edits(dom, edits, todo) ==
    IF todo = {} THEN dom
    ELSE LET paperId == CHOOSE x \in todo : TRUE
         IN  apply_edits(apply_fields(dom, paperId, edits[paperId]), edits,
                         todo \ {paperId})

\* mutant: the export writes the url of every record anew
merge_entry_Blank(entry, edits) ==
    IF entry.id.t = "str" /\ entry.id.s \in DOMAIN edits
    THEN [entry EXCEPT
             !.url = IF "url" \in DOMAIN edits[entry.id.s]
                     THEN Str(edits[entry.id.s].url) ELSE Str(<<>>),
             !.abstract = IF "abstract" \in DOMAIN edits[entry.id.s]
                          THEN Str(edits[entry.id.s].abstract) ELSE @]
    ELSE entry

\* the callback of original.map in exportToJson
merge_entry(entry, edits) ==
    IF entry.id.t = "str" /\ entry.id.s \in DOMAIN edits
    THEN [entry EXCEPT
             !.url = IF "url" \in DOMAIN edits[entry.id.s]
                     THEN Str(edits[entry.id.s].url) ELSE @,
             !.abstract = IF "abstract" \in DOMAIN edits[entry.id.s]
                          THEN Str(edits[entry.id.s].abstract) ELSE @]
    ELSE entry

\* fetch('url.json') answers, r.json() parses and original.map runs through:
\* the file is a list (an object has no map) of objects (entry.id of null
\* raises)
fetch_fulfilled(file) ==
    file.kind = "list" /\ \A k \in DOMAIN file.items : file.items[k].obj

\* a tab that shows nothing; also the script's state when the page has loaded
ClosedTab ==
    [loaded |-> FALSE,
     page |-> NoPage.page,
     dom |-> <<>>,
     currentEdit |-> [paperId |-> Null, field |-> Null],
     modal |-> FALSE,
     pc |-> "idle",
     edits |-> NoEdits,
     value |-> <<>>]

\* no edit has been saved
NoSave ==
    [paperId |-> Null, field |-> Null, value |-> <<>>, url_json |-> AbsentFile,
     edits |-> NoEdits]

BrowserClosed ==
    /\ localStorage = NoEdits
    /\ tabs = [t \in Tabs |-> ClosedTab]
    /\ download = AbsentFile
    /\ last_save = NoSave

pipeline_vars == <<pc, i, all_html, log, papers, papers_by_session,
                   url_json, debug_raw, papers_html, old, written, rerun>>

\* the tab loads papers.html (again): the document is parsed, then the
\* DOMContentLoaded handler applies the stored edits
load_page(t) ==
    /\ papers_html.exists
    /\ tabs[t].pc = "idle"
    /\ tabs' = [tabs EXCEPT ![t] =
                   [ClosedTab EXCEPT
                       !.loaded = TRUE,
                       !.page = papers_html.page,
                       !.dom = apply_edits(document_of(papers_html.page), localStorage,
                                           DOMAIN localStorage)]]
    /\ UNCHANGED <<pipeline_vars, localStorage, download, last_save>>

\* a click on an edit button or edit icon of the card of paperId
openEditModal(t, paperId, field) ==
    /\ tabs[t].loaded
    /\ tabs[t].pc = "idle"
    /\ querySelector(tabs[t].dom, paperId) # 0
    /\ tabs' = [tabs EXCEPT ![t].currentEdit = [paperId |-> paperId, field |-> field],
                            ![t].modal = TRUE]
    /\ UNCHANGED <<pipeline_vars, localStorage, download, last_save>>

\* the close button, Cancel, or a click on the modal's background
closeEditModal(t) ==
    /\ tabs[t].loaded
    /\ tabs[t].pc = "idle"
    /\ tabs' = [tabs EXCEPT ![t].currentEdit = [paperId |-> Null, field |-> Null],
                            ![t].modal = FALSE]
    /\ UNCHANGED <<pipeline_vars, localStorage, download, last_save>>

\* saveEdit up to localStorage.getItem: `typed` is what the input holds
saveEdit_getItem(t, typed) ==
    /\ tabs[t].loaded
    /\ tabs[t].pc = "idle"
    /\ tabs[t].currentEdit.paperId # Null
    /\ tabs[t].currentEdit.field # Null
    /\ tabs' = [tabs EXCEPT ![t].value = trim(typed),
                            ![t].edits = localStorage,
                            ![t].pc = "saving"]
    /\ UNCHANGED <<pipeline_vars, localStorage, download, last_save>>

\* saveEdit from localStorage.setItem on: the whole object is stored, the
\* card is updated and the modal closed
saveEdit_setItem(t) ==
    /\ tabs[t].pc = "saving"
    /\ LET paperId == tabs[t].currentEdit.paperId
           field == tabs[t].currentEdit.field
           value == tabs[t].value
       IN  /\ localStorage' = set_edit(tabs[t].edits, paperId, field, value)
           /\ tabs' = [tabs EXCEPT
                          ![t].dom = updateUI(@, paperId, field, value),
                          ![t].currentEdit = [paperId |-> Null, field |-> Null],
                          ![t].modal = FALSE,
                          ![t].pc = "idle",
                          ![t].edits = NoEdits,
                          ![t].value = <<>>]
           /\ last_save' = [paperId |-> paperId, field |-> field, value |-> value,
                            url_json |-> url_json,
                            edits |-> set_edit(tabs[t].edits, paperId, field, value)]
    /\ UNCHANGED <<pipeline_vars, download>>

\* a click on Export.  Without edits the handler shows an alert and
\* returns.  Otherwise the edits read at the click are what the callbacks
\* close over and url.json is read once, by fetch: the merged list is
\* downloaded, or the catch handler shows an alert.  An alert changes no state.
exportToJson(t) ==
    /\ tabs[t].loaded
    /\ tabs[t].pc = "idle"
    /\ IF DOMAIN localStorage # {} /\ fetch_fulfilled(url_json)
       THEN download' = File("list", [k \in DOMAIN url_json.items |->
                                         merge_entry(url_json.items[k], localStorage)])
       ELSE UNCHANGED download
    /\ UNCHANGED <<pipeline_vars, localStorage, tabs, last_save>>

\* the user puts the downloaded file in the place of url.json
replace_sidecar ==
    /\ pc = "done"
    /\ download.kind = "list"
    /\ url_json' = download
    /\ UNCHANGED <<pc, i, all_html, log, papers, papers_by_session, debug_raw,
                   papers_html, old, written, rerun, browser_vars>>

----------------------------------------------------------------------------
(* Inputs *)

\* the markup of one block per paper (a page with no block is still text)
html_for(ps) ==
    IF ps = <<>> THEN <<TextChunk>>
    ELSE [k \in DOMAIN ps |-> Block(TRUE, ps[k].id, ps[k].session_id, ps[k].title)]

\* the log of a fetch in which the first date returns html and the rest fail
log_for(html) ==
    [k \in DOMAIN DATES |-> [date |-> DATES[k], ok |-> k = 1,
                             body |-> IF k = 1 THEN html ELSE <<>>]]

\* the state of a run that found `files`, fetched html and stands at `stage`
RunAt(stage, html, files) ==
    LET ps == extract_technical_papers(html)
    IN  [pc |-> stage,
         i |-> Len(DATES) + 1,
         all_html |-> html,
         log |-> log_for(html),
         papers |-> IF stage \in {"group", "write"} THEN ps ELSE <<>>,
         papers_by_session |->
             IF stage = "write" THEN group_papers_by_session(ps) ELSE <<>>,
         url_json |-> files.url_json,
         debug_raw |-> [exists |-> TRUE, content |-> html],
         papers_html |-> files.papers_html,
         old |-> files,
         written |-> <<"debug_raw.html">>]

NoFiles == [url_json |-> AbsentFile, debug_raw |-> NoDebug, papers_html |-> NoPage]

\* a record of url.json as a run writes it and a user may have filled it in
Record(pid, title, session, url, abstract) ==
    [obj |-> TRUE, id |-> Str(pid), title |-> title, session |-> session,
     url |-> url, abstract |-> abstract]

StartFiles ==
    { NoFiles,
      [url_json |-> File("list", <<Record("papers_0042", <<"a">>, OtherPapers,
                                           Str(<<"u">>), Str(<<>>))>>),
       debug_raw |-> [exists |-> TRUE, content |-> <<TextChunk>>],
       papers_html |-> [exists |-> TRUE, page |-> generate_html(<<>>, AbsentFile)]],
      [url_json |-> File("bad", <<>>),
       debug_raw |-> NoDebug,
       papers_html |-> NoPage] }

\* the bodies the server returns for one date
Bodies ==
    { <<>>,
      <<TextChunk>>,
      <<Block(TRUE, "0042", <<1, 0, 4>>, <<"a">>)>>,
      <<Block(FALSE, "0043", <<7>>, <<"b">>),
        Block(TRUE, "0043", <<7>>, <<" ", "a">>),
        Block(TRUE, "0043", <<7>>, <<"b">>)>> }

Init ==
    /\ pc = "fetch"
    /\ i = 1
    /\ all_html = <<>>
    /\ log = <<>>
    /\ papers = <<>>
    /\ papers_by_session = <<>>
    /\ \E files \in StartFiles :
          /\ url_json = files.url_json
          /\ debug_raw = files.debug_raw
          /\ papers_html = files.papers_html
          /\ old = files
    /\ written = <<>>
    /\ rerun = FALSE
    /\ BrowserClosed

Next ==
    \/ \E body \in Bodies : fetch_ok(body)
    \/ \E error \in FetchErrors : fetch_error(error)
    \/ fetch_return
    \/ main_abort
    \/ main_save_debug
    \/ main_extract
    \/ main_group
    \/ main_write_urls_json
    \/ main_generate_html

Spec == Init /\ [][Next]_vars

----------------------------------------------------------------------------
(* group_papers_by_session on every short list of extracted papers *)

\* "sess104" and "sess159" are in the table; "sess0104" has the number of a
\* table entry but is not a key of it; "sess7" and "sess07" are not in the
\* table and have the same number
SessionIds == { <<1, 0, 4>>, <<1, 5, 9>>, <<0, 1, 0, 4>>, <<7>>, <<0, 7>> }

\* the k-th extracted paper: titles differ, as extraction leaves them
PaperAt(k, session_id) ==
    [id |-> ToString(k), session_id |-> session_id, title |-> [j \in 1..k |-> "a"]]

GroupInputs ==
    { [k \in DOMAIN sids |-> PaperAt(k, sids[k])] : sids \in SeqsUpTo(SessionIds, MaxPapers) }

PipelineAt(r) ==
    /\ pc = r.pc
    /\ i = r.i
    /\ all_html = r.all_html
    /\ log = r.log
    /\ papers = r.papers
    /\ papers_by_session = r.papers_by_session
    /\ url_json = r.url_json
    /\ debug_raw = r.debug_raw
    /\ papers_html = r.papers_html
    /\ old = r.old
    /\ written = r.written
    /\ rerun = FALSE

InitAt(r) == PipelineAt(r) /\ BrowserClosed

InitGroup == \E ps \in GroupInputs : InitAt(RunAt("group", html_for(ps), NoFiles))

NextGroup == main_group

SpecGroup == InitGroup /\ [][NextGroup]_vars

----------------------------------------------------------------------------
(* Properties of group_papers_by_session *)

\* papers_by_session holds the grouping of papers
Grouped == pc \in {"write", "render", "done"}

\* the extracted papers of one session identifier, in extraction order
PapersOf(session_id) == SelectSeq(papers, LAMBDA p : p.session_id = session_id)

ExtractedSessionIds == { papers[k].session_id : k \in DOMAIN papers }

\* the places <<bucket, position>> of the grouped output that hold paper p
Places(p) ==
    { <<b, k>> \in (DOMAIN papers_by_session) \X (1..Len(papers)) :
        /\ k \in DOMAIN papers_by_session[b].val
        /\ papers_by_session[b].val[k] = p }

\* the buckets with the given name
BucketsNamed(name) ==
    { b \in DOMAIN papers_by_session : papers_by_session[b].key = name }

\* the unmapped session identifiers with fewer than 3 papers
SmallSessionIds ==
    { s \in ExtractedSessionIds : s \notin DOMAIN SESSION_NAMES /\ Len(PapersOf(s)) < 3 }

\* C1: every extracted paper is in exactly one bucket exactly once, and the
\* bucket sizes add up to the number of extracted papers
C1_EveryPaperInOneBucket ==
    Grouped =>
        /\ \A k \in DOMAIN papers : Cardinality(Places(papers[k])) = 1
        /\ sum_len(papers_by_session) = Len(papers)

\* C5: a session identifier of the table with at least one paper has a bucket
\* with the table's name that holds exactly the papers of that session
C5_TableSessionsKeepTheirName ==
    Grouped =>
        \A s \in ExtractedSessionIds \cap DOMAIN SESSION_NAMES :
            /\ Cardinality(BucketsNamed(TableName(SESSION_NAMES[s]))) = 1
            /\ \A b \in BucketsNamed(TableName(SESSION_NAMES[s])) :
                   papers_by_session[b].val = PapersOf(s)

C5_Witness ==
    /\ Grouped
    /\ Len(PapersOf(<<1, 0, 4>>)) = 1
    /\ Len(PapersOf(<<1, 5, 9>>)) >= 3
    /\ Len(PapersOf(<<0, 1, 0, 4>>)) >= 1
    /\ Len(papers_by_session) = 3

\* C6: a session identifier outside the table with at least 3 papers has a
\* bucket "Session n", n its number, that holds exactly its papers
C6_LargeUnmappedSessionsGetNumberedBucket ==
    Grouped =>
        \A s \in ExtractedSessionIds :
            (s \notin DOMAIN SESSION_NAMES /\ Len(PapersOf(s)) >= 3) =>
                /\ Cardinality(BucketsNamed(SessionName(int(s)))) = 1
                /\ \A b \in BucketsNamed(SessionName(int(s))) :
                       papers_by_session[b].val = PapersOf(s)

\* C7: the papers of unmapped sessions with fewer than 3 papers are in
\* "Other Papers" and in no other bucket; that bucket exists iff there is
\* such a paper, is never empty and is the last bucket
C7_SmallUnmappedSessionsGoToCatchAll ==
    Grouped =>
        /\ \A s \in SmallSessionIds : \A k \in DOMAIN PapersOf(s) :
               \A pl \in Places(PapersOf(s)[k]) :
                   papers_by_session[pl[1]].key = OtherPapers
        /\ \A s \in SmallSessionIds : \A k \in DOMAIN PapersOf(s) :
               Places(PapersOf(s)[k]) # {}
        /\ (BucketsNamed(OtherPapers) # {}) <=> (SmallSessionIds # {})
        /\ \A b \in BucketsNamed(OtherPapers) :
               /\ papers_by_session[b].val # <<>>
               /\ b = Len(papers_by_session)

C7_Witness ==
    /\ Grouped
    /\ Len(PapersOf(<<7>>)) = 2
    /\ Len(PapersOf(<<0, 7>>)) >= 3
    /\ Len(PapersOf(<<0, 1, 0, 4>>)) = 1
    /\ BucketsNamed(OtherPapers) = {2}
    /\ Len(papers_by_session[2].val) = 3

\* C8: the buckets other than the catch-all each hold the papers of one
\* session identifier, and they stand in ascending order of its number
C8_BucketsInNumericOrder ==
    Grouped =>
        \A a, b \in DOMAIN papers_by_session :
            (/\ a <= b
             /\ papers_by_session[a].key # OtherPapers
             /\ papers_by_session[b].key # OtherPapers) =>
                \A p \in Range(papers_by_session[a].val) :
                    \A q \in Range(papers_by_session[b].val) :
                        /\ a = b => p.session_id = q.session_id
                        /\ int(p.session_id) <= int(q.session_id)

C8_Witness ==
    /\ Grouped
    /\ Len(papers) >= 4
    /\ papers[1].session_id = <<1, 5, 9>>
    /\ papers[2].session_id = <<0, 7>>
    /\ papers[3].session_id = <<1, 0, 4>>
    /\ Len(PapersOf(<<0, 7>>)) >= 3
    /\ Len(papers_by_session) = 3
    /\ papers_by_session[1].key = SessionName(7)

----------------------------------------------------------------------------
(* extract_technical_papers on every short markup *)

\* link texts: "a", " a " and "a " decode to the same title, as do "&amp;",
\* "&#38;" and "&"
RawTitles == { <<"a">>, <<" ", "a", " ">>, <<"&amp;">>, <<"&#38;">>, <<"&">>, <<"b">> }

ExtractChunks ==
    {TextChunk}
    \cup { Block(TRUE, "0042", <<1, 0, 4>>, raw) : raw \in RawTitles }
    \cup { Block(TRUE, "0043", <<7>>, raw) : raw \in {<<"a">>, <<"&">>} }
    \cup { Block(FALSE, "0044", <<7>>, raw) : raw \in {<<"a">>, <<"b">>} }

ExtractInputs == SeqsUpTo(ExtractChunks, MaxBlocks) \ {<<>>}

InitExtract == \E html \in ExtractInputs : InitAt(RunAt("extract", html, NoFiles))

NextExtract == main_extract

SpecExtract == InitExtract /\ [][NextExtract]_vars

\* papers holds what was extracted from all_html
Extracted == pc \in {"group", "write", "render", "done"}

\* the chunks that are blocks with the id+session anchor
WellFormed(k) == all_html[k].kind = "block" /\ all_html[k].anchor

\* the first well-formed block of each decoded title, in source order
FirstBlocks ==
    SelectSeq([k \in DOMAIN all_html |-> k],
              LAMBDA k : /\ WellFormed(k)
                         /\ \A j \in 1..(k - 1) :
                                WellFormed(j) =>
                                    title_of(all_html[j].raw) # title_of(all_html[k].raw))

\* C2: no two extracted papers have the same decoded title; the papers are
\* those of the first well-formed block of each title, in source order
C2_FirstOccurrenceOfEachTitle ==
    Extracted =>
        /\ \A j, k \in DOMAIN papers : papers[j].title = papers[k].title => j = k
        /\ Len(papers) = Len(FirstBlocks)
        /\ \A k \in DOMAIN papers :
               LET c == all_html[FirstBlocks[k]]
               IN  papers[k] = [id |-> c.id, session_id |-> c.sess,
                                title |-> title_of(c.raw)]

\* a title occurs first without the anchor, then twice with it under
\* different ids and different spellings
C2_Witness ==
    /\ Extracted
    /\ Len(all_html) = 4
    /\ all_html[1] = Block(FALSE, "0044", <<7>>, <<"a">>)
    /\ all_html[2] = Block(TRUE, "0042", <<1, 0, 4>>, <<"&amp;">>)
    /\ all_html[3] = Block(TRUE, "0042", <<1, 0, 4>>, <<" ", "a", " ">>)
    /\ all_html[4] = Block(TRUE, "0043", <<7>>, <<"&">>)
    /\ Len(papers) = 2

----------------------------------------------------------------------------
(* write_urls_json over stored files and successive runs *)

Missing == [t |-> "missing", s |-> <<>>]

NotStr == [t |-> "other", s |-> <<>>]

\* url and abstract of a stored record
StoredFields ==
    { <<Missing, Missing>>,
      <<NotStr, Str(<<"a">>)>>,
      <<Str(<<>>), Str(<<>>)>>,
      <<Str(<<"v">>), Str(<<"a">>)>>,
      <<Str(<<" ", "u", " ">>), NotStr>>,
      <<Str(<<" ">>), Str(<<" ">>)>> }

StoredIds == { Str("papers_0042"), Str("papers_0043"), [t |-> "other", s |-> ""] }

OldTitle == <<"o">>

OldSession == TableName("Mesh Processing")

\* an element of the list, or a value of the map, that is not a JSON object
NonObject(id) ==
    [obj |-> FALSE, id |-> id, title |-> <<>>, session |-> OldSession,
     url |-> Missing, abstract |-> Missing]

\* a record whose id is not a string is stored with one choice of fields
StoredRecords ==
    { NonObject(id) : id \in StoredIds }
    \cup { [obj |-> TRUE, id |-> id, title |-> OldTitle, session |-> OldSession,
            url |-> f[1], abstract |-> f[2]] :
              id \in { x \in StoredIds : x.t = "str" }, f \in StoredFields }
    \cup { [obj |-> TRUE, id |-> id, title |-> OldTitle, session |-> OldSession,
            url |-> Str(<<"v">>), abstract |-> Str(<<"a">>)] :
              id \in { x \in StoredIds : x.t # "str" } }

\* in a list a non-object has no id; in a map every key is a string and occurs once
ListRecords == { r \in StoredRecords : r.obj \/ r.id.t = "other" }

MapRecords == { r \in StoredRecords : r.id.t = "str" }

StoredFiles ==
    { AbsentFile, File("bad", <<>>), File("scalar", <<>>) }
    \cup { File("list", items) : items \in SeqsUpTo(ListRecords, MaxStored) }
    \cup { File("map", items) :
             items \in { s \in SeqsUpTo(MapRecords, MaxStored) :
                           \A j, k \in DOMAIN s : s[j].id = s[k].id => j = k } }

PaperA == [id |-> "0042", session_id |-> <<1, 0, 4>>, title |-> <<"a">>]

\* the paper of PaperA's id under another title and in another session
PaperA2 == [id |-> "0042", session_id |-> <<7>>, title |-> <<"b">>]

PaperB == [id |-> "0043", session_id |-> <<1, 0, 4>>, title |-> <<"c">>]

\* what successive runs extract
SidecarRuns ==
    { <<>>, <<PaperA>>, <<PaperA2>>, <<PaperB>>, <<PaperA, PaperB>>,
      <<PaperB, PaperA2>>, <<PaperA, PaperA2>> }

\* the next run of main, up to the call of write_urls_json: it finds the
\* files the last run left and extracts ps
next_run(ps) ==
    /\ pc = "done"
    /\ LET r == RunAt("write", html_for(ps), Files)
       IN  /\ pc' = r.pc
           /\ i' = r.i
           /\ all_html' = r.all_html
           /\ log' = r.log
           /\ papers' = r.papers
           /\ papers_by_session' = r.papers_by_session
           /\ url_json' = r.url_json
           /\ debug_raw' = r.debug_raw
           /\ papers_html' = r.papers_html
           /\ old' = r.old
           /\ written' = r.written
           /\ rerun' = (r.papers_by_session = papers_by_session)
    /\ UNCHANGED browser_vars

InitSidecar ==
    \E ps \in SidecarRuns, file \in StoredFiles :
        InitAt(RunAt("write", html_for(ps),
                     [url_json |-> file, debug_raw |-> NoDebug, papers_html |-> NoPage]))

NextSidecar ==
    \/ main_write_urls_json
    \/ main_generate_html
    \/ \E ps \in SidecarRuns : next_run(ps)

SpecSidecar == InitSidecar /\ [][NextSidecar]_vars

----------------------------------------------------------------------------
(* Properties of write_urls_json *)

\* url.json holds what this run wrote; old.url_json is the file it found
SidecarWritten == pc \in {"render", "done"}

\* the grouped papers with their session names, in output order
GroupedPairs ==
    Flatten([b \in DOMAIN papers_by_session |->
                [k \in DOMAIN papers_by_session[b].val |->
                    [session |-> papers_by_session[b].key,
                     paper |-> papers_by_session[b].val[k]]]])

\* the records of the stored file that are objects with the string id pid
StoredAt(pid) ==
    IF old.url_json.kind \in {"list", "map"}
    THEN { k \in DOMAIN old.url_json.items :
             old.url_json.items[k].obj /\ old.url_json.items[k].id = Str(pid) }
    ELSE {}

\* the stored record for pid: the last one, should the file hold several
StoredRecord(pid) ==
    old.url_json.items[CHOOSE k \in StoredAt(pid) : \A j \in StoredAt(pid) : j <= k]

\* a stored value as text: a value that is missing or not a string has none
StoredText(v) == IF v.t = "str" THEN v.s ELSE <<>>

\* C3: a written record whose identifier has a stored record carries that
\* record's url and abstract, whatever its title and session were; empty
\* stays empty; title and session are those of the current grouping
C3_StoredValuesCarriedForward ==
    SidecarWritten =>
        /\ Len(url_json.items) = Len(GroupedPairs)
        /\ \A k \in DOMAIN url_json.items :
               LET e == url_json.items[k]
                   g == GroupedPairs[k]
               IN  /\ e.id = Str("papers_" \o g.paper.id)
                   /\ e.title = g.paper.title
                   /\ e.session = g.session
                   /\ StoredAt(e.id.s) # {} =>
                          /\ e.url = Str(StoredText(StoredRecord(e.id.s).url))
                          /\ e.abstract = Str(StoredText(StoredRecord(e.id.s).abstract))

\* papers_0042 was stored with a url and an abstract under the old title
\* and session, papers_0043 with both empty; this run finds both papers
C3_Witness ==
    /\ SidecarWritten
    /\ old.url_json =
           File("list", <<Record("papers_0043", OldTitle, OldSession, Str(<<>>), Str(<<>>)),
                          Record("papers_0042", OldTitle, OldSession,
                                 Str(<<"v">>), Str(<<"a">>))>>)
    /\ url_json =
           File("list", <<Record("papers_0043", <<"c">>,
                                 TableName("3D Reconstruction & Intelligent Geometry"),
                                 Str(<<>>), Str(<<>>)),
                          Record("papers_0042", <<"b">>, OtherPapers,
                                 Str(<<"v">>), Str(<<"a">>))>>)

\* what reading the written file back gives for each identifier
WrittenValues(pid) ==
    { [url |-> url_json.items[k].url.s, abstract |-> url_json.items[k].abstract.s] :
        k \in { j \in DOMAIN url_json.items : url_json.items[j].id = Str(pid) } }

\* the written file read back gives the written values, it has one record
\* per grouped paper and no other, and a paper without a stored record has
\* empty url and abstract
C4_WrittenFile ==
    SidecarWritten =>
        /\ url_json.kind = "list"
        /\ DOMAIN _load_existing_meta(url_json) =
               { url_json.items[k].id.s : k \in DOMAIN url_json.items }
        /\ \A pid \in DOMAIN _load_existing_meta(url_json) :
               WrittenValues(pid) = { _load_existing_meta(url_json)[pid] }
        /\ Len(url_json.items) = Len(GroupedPairs)
        /\ \A k \in DOMAIN url_json.items :
               /\ url_json.items[k].obj
               /\ url_json.items[k].id = Str("papers_" \o GroupedPairs[k].paper.id)
               /\ StoredAt(url_json.items[k].id.s) = {} =>
                      /\ url_json.items[k].url = Str(<<>>)
                      /\ url_json.items[k].abstract = Str(<<>>)

\* writing again from the same grouped papers leaves the file as it is
C4_RewriteChangesNothing ==
    (pc = "write" /\ pc' = "render" /\ rerun) => url_json' = url_json

\* C4: write then read gives the written values; a repeated write of the
\* same papers changes nothing; after a run with other papers the file holds
\* exactly the current papers, new ones empty, absent ones dropped
C4_RoundTripAndRewrite == [](C4_WrittenFile) /\ [][C4_RewriteChangesNothing]_vars

\* the last run stored a url for papers_0042; this run finds only papers_0043
C4_Witness ==
    /\ SidecarWritten
    /\ old.papers_html.exists
    /\ old.url_json =
           File("list", <<Record("papers_0042", <<"a">>,
                                 TableName("3D Reconstruction & Intelligent Geometry"),
                                 Str(<<"v">>), Str(<<"a">>))>>)
    /\ url_json =
           File("list", <<Record("papers_0043", <<"c">>,
                                 TableName("3D Reconstruction & Intelligent Geometry"),
                                 Str(<<>>), Str(<<>>))>>)

----------------------------------------------------------------------------
(* Properties of fetch_schedule_data and of main's test of its result *)

FetchDone == pc # "fetch"

\* no date gave any text: each fetch failed or returned the empty body
NoData == \A k \in DOMAIN log : ~log[k].ok \/ log[k].body = <<>>

\* C9: when no date gave any text the run stops at the test: it writes no
\* file, and the three files are as the run found them
C9_NoDataNoOutput ==
    (FetchDone /\ NoData) =>
        /\ pc \in {"check", "aborted"}
        /\ pc = "check" => (ENABLED main_abort /\ ~ENABLED main_save_debug)
        /\ written = <<>>
        /\ Files = old

\* a run that found a sidecar, a debug file and a page, and got failures
\* and empty bodies only
C9_Witness ==
    /\ pc = "aborted"
    /\ old.url_json.kind = "list"
    /\ old.debug_raw.exists
    /\ old.papers_html.exists
    /\ \E k \in DOMAIN log : ~log[k].ok
    /\ \E k \in DOMAIN log : log[k].ok /\ log[k].body = <<>>

\* the bodies of the dates that succeeded so far, in date order
SucceededText ==
    Flatten([k \in DOMAIN log |-> IF log[k].ok THEN log[k].body ELSE <<>>])

\* C10: the dates are attempted once each in the order of DATES, whatever
\* fails; the fetch ends only after the last date, and its text is the
\* bodies of the dates that succeeded, in date order
C10_EveryDateAttempted ==
    /\ [k \in DOMAIN log |-> log[k].date] = SubSeq(DATES, 1, Len(log))
    /\ pc = "fetch" => i = Len(log) + 1
    /\ FetchDone => Len(log) = Len(DATES)
    /\ all_html = SucceededText

\* failures before, between and after the dates that returned text
C10_Witness ==
    /\ pc = "check"
    /\ ~log[1].ok
    /\ log[2].ok /\ log[2].body = <<Block(TRUE, "0042", <<1, 0, 4>>, <<"a">>)>>
    /\ ~log[3].ok
    /\ log[4].ok /\ log[4].body = <<>>
    /\ log[5].ok /\ log[5].body = <<TextChunk>>
    /\ ~log[7].ok
    /\ Len(all_html) >= 3

----------------------------------------------------------------------------
(* A run that finds no usable sidecar *)

\* the run found no url.json, or one json.load could not parse
NoUsableSidecar == old.url_json.kind \in {"absent", "bad"}

\* C11: when url.json is absent or not parseable as JSON, loading gives the
\* empty mapping and the run does not fail: it goes on to write the sidecar
\* and the page, every paper with empty url and abstract
C11_NoSidecarLoadsEmpty ==
    NoUsableSidecar =>
        /\ _load_existing_meta(old.url_json) = EmptyMap
        /\ pc = "write" => ENABLED main_write_urls_json
        /\ pc = "render" => ENABLED main_generate_html
        /\ pc \in {"fetch", "check", "aborted", "extract", "group", "write",
                   "render", "done"}
        /\ SidecarWritten =>
              /\ url_json.kind = "list"
              /\ Len(url_json.items) = Len(GroupedPairs)
              /\ \A k \in DOMAIN url_json.items :
                    /\ url_json.items[k].url = Str(<<>>)
                    /\ url_json.items[k].abstract = Str(<<>>)
        /\ pc = "done" =>
              /\ written = <<"debug_raw.html", "url.json", "papers.html">>
              /\ papers_html.exists
              /\ Len(Cards(papers_html.page)) = Len(GroupedPairs)
              /\ \A k \in DOMAIN Cards(papers_html.page) :
                    /\ Cards(papers_html.page)[k].url = <<>>
                    /\ Cards(papers_html.page)[k].abstract = <<>>

\* a run that found an unparseable url.json and wrote two papers
C11_Witness ==
    /\ pc = "done"
    /\ old.url_json.kind = "bad"
    /\ Len(url_json.items) = 2
    /\ Len(Cards(papers_html.page)) = 2

----------------------------------------------------------------------------
(* What _load_existing_meta makes of the stored records *)

\* the string ids that an object record of the stored file carries
StoredPids ==
    { old.url_json.items[k].id.s :
        k \in { j \in DOMAIN old.url_json.items :
                  old.url_json.items[j].obj /\ old.url_json.items[j].id.t = "str" } }

\* every record is an object with a string id, and no id occurs twice: the
\* records can be put down as a list or as a map
SameAsMap(items) ==
    /\ \A k \in DOMAIN items : items[k].id.t = "str"
    /\ \A j, k \in DOMAIN items : items[j].id = items[k].id => j = k

\* C15: loading gives one {url, abstract} pair per string id of an object
\* record, of either shape; other records are skipped; a url or abstract
\* that is missing or not a string loads as the empty string; a list and a
\* map of the same records load to the same mapping
C15_LoadNormalisesBothShapes ==
    SidecarWritten =>
        LET meta_map == _load_existing_meta(old.url_json)
        IN  /\ old.url_json.kind \in {"list", "map"} => DOMAIN meta_map = StoredPids
            /\ old.url_json.kind \notin {"list", "map"} => meta_map = EmptyMap
            /\ \A pid \in DOMAIN meta_map :
                  /\ DOMAIN meta_map[pid] = {"url", "abstract"}
                  /\ meta_map[pid].url = StoredText(StoredRecord(pid).url)
                  /\ meta_map[pid].abstract = StoredText(StoredRecord(pid).abstract)
            /\ old.url_json.kind = "map" =>
                  _load_existing_meta(File("list", old.url_json.items)) = meta_map
            /\ (old.url_json.kind = "list" /\ SameAsMap(old.url_json.items)) =>
                  _load_existing_meta(File("map", old.url_json.items)) = meta_map

\* a list whose first record is not an object and whose second has a url
\* that is not a string
C15_Witness ==
    /\ SidecarWritten
    /\ old.url_json.kind = "list"
    /\ Len(old.url_json.items) = 2
    /\ ~old.url_json.items[1].obj
    /\ old.url_json.items[2].obj
    /\ old.url_json.items[2].id = Str("papers_0042")
    /\ old.url_json.items[2].url.t = "other"
    /\ _load_existing_meta(old.url_json)["papers_0042"] = [url |-> <<>>, abstract |-> <<"a">>]

----------------------------------------------------------------------------
(* The lookups the renderer reads from the written sidecar *)

\* a text of whitespace only (the empty text included)
Blank(s) == \A k \in DOMAIN s : s[k] \in Whitespace

\* t is s without its leading and trailing whitespace
IsTrimOf(t, s) ==
    /\ t # <<>>
    /\ t[1] \notin Whitespace
    /\ t[Len(t)] \notin Whitespace
    /\ \E a, b \in 0..Len(s) :
          /\ a + b <= Len(s)
          /\ t = SubSeq(s, a + 1, Len(s) - b)
          /\ Blank(SubSeq(s, 1, a))
          /\ Blank(SubSeq(s, Len(s) - b + 1, Len(s)))

\* lookup holds, for the field, the trimmed non-blank values of the file
\* and nothing else
LookupOf(lookup, field) ==
    /\ DOMAIN lookup \subseteq { url_json.items[k].id.s : k \in DOMAIN url_json.items }
    /\ \A k \in DOMAIN url_json.items :
          LET pid == url_json.items[k].id.s
              value == url_json.items[k][field].s
          IN  /\ pid \in DOMAIN lookup <=> ~Blank(value)
              /\ pid \in DOMAIN lookup => IsTrimOf(lookup[pid], value)

\* C16: after a run, each render lookup contains a paper id iff the stored
\* value of its field is non-blank after trimming, with the trimmed value;
\* a card whose id a lookup lacks has an unlinked title (url lookup) or the
\* abstract placeholder (abstract lookup), the others show the looked-up value
C16_LookupsHoldTrimmedNonBlank ==
    pc = "done" =>
        LET url_map == load_urls_for_html(url_json)
            abstract_map == load_abstracts_for_html(url_json)
            cards == Cards(papers_html.page)
        IN  /\ LookupOf(url_map, "url")
            /\ LookupOf(abstract_map, "abstract")
            /\ \A k \in DOMAIN cards :
                  /\ cards[k].pid \notin DOMAIN url_map <=> cards[k].url = <<>>
                  /\ cards[k].pid \in DOMAIN url_map =>
                        cards[k].url = url_map[cards[k].pid]
                  /\ cards[k].pid \notin DOMAIN abstract_map <=> cards[k].abstract = <<>>
                  /\ cards[k].pid \in DOMAIN abstract_map =>
                        cards[k].abstract = abstract_map[cards[k].pid]

\* a page with a card linked to the trimmed " u " and a card whose stored
\* url and abstract are a space
C16_Witness ==
    /\ pc = "done"
    /\ \E j, k \in DOMAIN url_json.items :
          /\ url_json.items[j].id = Str("papers_0042")
          /\ url_json.items[j].url = Str(<<" ", "u", " ">>)
          /\ url_json.items[k].id = Str("papers_0043")
          /\ url_json.items[k].url = Str(<<" ">>)
          /\ url_json.items[k].abstract = Str(<<" ">>)
    /\ \E j, k \in DOMAIN Cards(papers_html.page) :
          /\ Cards(papers_html.page)[j] =
                [pid |-> "papers_0042", title |-> <<"a">>, url |-> <<"u">>,
                 abstract |-> <<>>]
          /\ Cards(papers_html.page)[k].pid = "papers_0043"
          /\ Cards(papers_html.page)[k].url = <<>>
          /\ Cards(papers_html.page)[k].abstract = <<>>

----------------------------------------------------------------------------
(* Blocks without the id+session anchor *)

\* the markup without the blocks that lack the anchor
WithoutMalformed(html) ==
    SelectSeq(html, LAMBDA c : ~(c.kind = "block" /\ ~c.anchor))

\* C17: a block that lacks the id+session anchor gives no paper and does
\* not register its title as seen: every paper comes from a block with the
\* anchor, a title that a block with the anchor carries is extracted even
\* when a block without the anchor carried it before, and the result is the
\* one the markup without those blocks gives
C17_MalformedBlocksLeaveNoTrace ==
    Extracted =>
        /\ \A p \in Range(papers) :
              \E k \in DOMAIN all_html :
                  /\ WellFormed(k)
                  /\ p = [id |-> all_html[k].id, session_id |-> all_html[k].sess,
                          title |-> title_of(all_html[k].raw)]
        /\ \A k \in DOMAIN all_html :
              WellFormed(k) =>
                  \E p \in Range(papers) : p.title = title_of(all_html[k].raw)
        /\ papers = extract_technical_papers(WithoutMalformed(all_html))

\* a block without the anchor, then a block with the anchor and the same
\* title, which is extracted
C17_Witness ==
    /\ Extracted
    /\ Len(all_html) = 2
    /\ all_html[1] = Block(FALSE, "0044", <<7>>, <<"a">>)
    /\ all_html[2] = Block(TRUE, "0042", <<1, 0, 4>>, <<" ", "a", " ">>)
    /\ papers = <<[id |-> "0042", session_id |-> <<1, 0, 4>>, title |-> <<"a">>]>>

----------------------------------------------------------------------------
(* The page against the sidecar of the same run *)

\* C19: the renderer runs only after url.json has been rewritten in the
\* same run, and the page it writes agrees with that file: one record per
\* card, in card order, the title a link iff the record's url is not blank,
\* the abstract shown iff the record's abstract is not blank
C19_PageAgreesWithWrittenSidecar ==
    /\ ENABLED main_generate_html =>
          /\ written # <<>>
          /\ written[Len(written)] = "url.json"
          /\ url_json = write_urls_json(papers_by_session, old.url_json)
    /\ pc = "done" =>
          LET cards == Cards(papers_html.page)
          IN  /\ written = <<"debug_raw.html", "url.json", "papers.html">>
              /\ Len(url_json.items) = Len(cards)
              /\ \A k \in DOMAIN cards :
                    /\ url_json.items[k].id = Str(cards[k].pid)
                    /\ url_json.items[k].title = cards[k].title
                    /\ cards[k].url # <<>> <=> ~Blank(url_json.items[k].url.s)
                    /\ cards[k].abstract # <<>> <=> ~Blank(url_json.items[k].abstract.s)

\* a run that found a map-shaped sidecar and rendered a card with a link
\* and an abstract after a card with neither
C19_Witness ==
    /\ pc = "done"
    /\ old.url_json.kind = "map"
    /\ Len(Cards(papers_html.page)) = 2
    /\ Cards(papers_html.page)[1].url = <<>>
    /\ Cards(papers_html.page)[1].abstract = <<>>
    /\ Cards(papers_html.page)[2].url # <<>>
    /\ Cards(papers_html.page)[2].abstract # <<>>

----------------------------------------------------------------------------
(* The page of one run in one tab *)

\* what the run extracts
BrowserRuns == { <<PaperA>>, <<PaperA, PaperB>> }

\* a paper that only an earlier run extracted
PaperC == [id |-> "0044", session_id |-> <<7>>, title |-> <<"d">>]

\* the url.json the run finds
BrowserFiles ==
    { AbsentFile,
      File("list", <<Record("papers_0042", OldTitle, OldSession,
                            Str(<<"u">>), Str(<<"a">>))>>) }

\* the papers.html the run finds: none, or the page of an earlier run
BrowserPages ==
    { NoPage,
      [exists |-> TRUE,
       page |-> generate_html(group_papers_by_session(<<PaperC>>), AbsentFile)] }

\* the edits the browser holds from the page of an earlier run
StoredEdits == { NoEdits, set_edit(NoEdits, pid_of(PaperC), "url", <<"v">>) }

\* what the user leaves in the input of the modal
Typed == { <<>>, <<" ", "v", " ">> }

\* the edit buttons the user clicks
EditButtons ==
    { <<pid_of(PaperA), "url">>, <<pid_of(PaperA), "abstract">>,
      <<pid_of(PaperB), "url">> }

InitBrowser ==
    /\ \E ps \in BrowserRuns, file \in BrowserFiles, page \in BrowserPages :
          PipelineAt(RunAt("write", html_for(ps),
                           [url_json |-> file, debug_raw |-> NoDebug,
                            papers_html |-> page]))
    /\ localStorage \in StoredEdits
    /\ tabs = [t \in Tabs |-> ClosedTab]
    /\ download = AbsentFile
    /\ last_save = NoSave

\* what the user does in tab t
tab_step(t) ==
    \/ load_page(t)
    \/ \E b \in EditButtons : openEditModal(t, b[1], b[2])
    \/ closeEditModal(t)
    \/ \E typed \in Typed : saveEdit_getItem(t, typed)
    \/ saveEdit_setItem(t)
    \/ exportToJson(t)

NextBrowser ==
    \/ main_write_urls_json
    \/ main_generate_html
    \/ tab_step("tab1")

SpecBrowser == InitBrowser /\ [][NextBrowser]_vars

----------------------------------------------------------------------------
(* What a saved edit does to local storage and to the card *)

\* the card shows a link to href: its Open link or its title link has it
ShowsLinkTo(card, href) ==
    \/ card.paper_link.has /\ card.paper_link.href = href
    \/ card.title_link.has /\ card.title_link.href = href

\* the step of tab t completes saveEdit for paper p, field f and value v
Saves(t, p, f, v) ==
    /\ saveEdit_setItem(t)
    /\ tabs[t].currentEdit = [paperId |-> p, field |-> f]
    /\ tabs[t].value = v

\* C12: saveEdit for (p, f) with trimmed input v leaves edits[p][f] = v in
\* local storage and the card of p reflecting v: the abstract body shows v,
\* or the placeholder when v is empty; the card shows a link to v exactly
\* when v is not empty
C12_SaveShowsOnCard ==
    [][\A t \in Tabs, b \in EditButtons, typed \in Typed :
          Saves(t, b[1], b[2], trim(typed)) =>
              LET v == trim(typed)
                  card == tabs'[t].dom[querySelector(tabs[t].dom, b[1])]
              IN  /\ has_edit(localStorage', b[1], b[2])
                  /\ localStorage'[b[1]][b[2]] = v
                  /\ b[2] = "abstract" =>
                        card.body = (IF v # <<>> THEN v ELSE Placeholder)
                  /\ b[2] = "url" => (ShowsLinkTo(card, v) <=> v # <<>>)]_vars

----------------------------------------------------------------------------
(* What the export hands to the user *)

\* the value the export gives a field of a record: the stored edit for the
\* record's id and field when there is one, otherwise the record's own
Exported(entry, field) ==
    IF /\ entry.id.t = "str"
       /\ \E p \in DOMAIN localStorage :
             p = entry.id.s /\ field \in DOMAIN localStorage[p]
    THEN Str(localStorage[entry.id.s][field])
    ELSE entry[field]

\* C13: the download of an export has the records of the fetched url.json,
\* in order, with id, title and session as fetched and url and abstract
\* replaced by the stored edit where there is one; it holds nothing else
\* (no record for an edit whose id the file lacks); the export changes
\* neither url.json nor local storage; without stored edits, or without a
\* url.json that can be fetched, nothing is downloaded
C13_ExportMergesEdits ==
    [][\A t \in Tabs :
          exportToJson(t) =>
              /\ url_json' = url_json
              /\ localStorage' = localStorage
              /\ DOMAIN localStorage = {} => download' = download
              /\ url_json.kind # "list" => download' = download
              /\ (DOMAIN localStorage # {} /\ url_json.kind = "list") =>
                    /\ download'.kind = "list"
                    /\ Len(download'.items) = Len(url_json.items)
                    /\ \A k \in DOMAIN url_json.items :
                          /\ download'.items[k].id = url_json.items[k].id
                          /\ download'.items[k].title = url_json.items[k].title
                          /\ download'.items[k].session = url_json.items[k].session
                          /\ download'.items[k].url = Exported(url_json.items[k], "url")
                          /\ download'.items[k].abstract =
                                Exported(url_json.items[k], "abstract")]_vars

\* a download of two records, the first with an edited abstract and its
\* url as in url.json, the second untouched, while local storage also holds
\* an edit for a paper url.json does not have
C13_Witness ==
    /\ download.kind = "list"
    /\ Len(download.items) = 2
    /\ Len(url_json.items) = 2
    /\ localStorage = set_edit(set_edit(NoEdits, pid_of(PaperC), "url", <<"v">>),
                               pid_of(PaperA), "abstract", <<"v">>)
    /\ download.items[1].id = Str(pid_of(PaperA))
    /\ download.items[1].url = Str(<<"u">>)
    /\ download.items[1].abstract = Str(<<"v">>)
    /\ download.items[2] = url_json.items[2]
    /\ url_json.items[1].abstract = Str(<<"a">>)

----------------------------------------------------------------------------
(* Reloading the page *)

\* the step of tab t loads again the page the tab is showing
Reloads(t) ==
    /\ load_page(t)
    /\ tabs[t].loaded
    /\ tabs[t].page = papers_html.page

\* the ids with a stored edit and no card on the page
WithoutCard(page) ==
    { p \in DOMAIN localStorage : querySelector(document_of(page), p) = 0 }

\* C18: when the page is loaded the stored edits are applied again, so that
\* after a reload every card shows what it showed before, that is, since
\* the edit was saved; a stored edit for a paper without a card raises no
\* error, changes no card and stays in local storage
C18_ReloadShowsSavedEdits ==
    [][\A t \in Tabs :
          /\ Reloads(t) => tabs'[t].dom = tabs[t].dom
          /\ load_page(t) =>
                /\ localStorage' = localStorage
                /\ tabs'[t].dom =
                      apply_edits(document_of(papers_html.page), localStorage,
                                  DOMAIN localStorage \ WithoutCard(papers_html.page))]_vars

----------------------------------------------------------------------------
(* The page of one run in two tabs of the same origin *)

InitTabs ==
    /\ PipelineAt(RunAt("write", html_for(<<PaperA, PaperB>>),
                        [url_json |-> AbsentFile, debug_raw |-> NoDebug,
                         papers_html |-> NoPage]))
    /\ BrowserClosed

\* the edit buttons the user clicks in each tab
TabButtons ==
    [t \in Tabs |->
        IF t = "tab1" THEN { <<pid_of(PaperA), "url">> }
        ELSE { <<pid_of(PaperA), "abstract">>, <<pid_of(PaperB), "url">> }]

\* the tabs run one script each; a script runs a handler to its end, but
\* getItem and setItem of one handler are two accesses to the storage the
\* tabs share, and the other tab's accesses can fall between them
NextTabs ==
    \/ main_write_urls_json
    \/ main_generate_html
    \/ \E t \in Tabs :
          \/ load_page(t)
          \/ \E b \in TabButtons[t] : openEditModal(t, b[1], b[2])
          \/ closeEditModal(t)
          \/ \E typed \in Typed : saveEdit_getItem(t, typed)
          \/ saveEdit_setItem(t)

SpecTabs == InitTabs /\ [][NextTabs]_vars

\* C14: saveEdit needs no lock: when it runs in two tabs for different
\* (paper, field) pairs, each reading the stored object and then writing
\* the whole object, no saved edit is lost: a save that completes leaves in
\* local storage, besides its own edit, every edit that was there
C14_NoSavedEditLost ==
    [][\A t \in Tabs :
          saveEdit_setItem(t) =>
              \A b \in EditButtons :
                  (has_edit(localStorage, b[1], b[2])
                      /\ b # <<tabs[t].currentEdit.paperId, tabs[t].currentEdit.field>>)
                  => /\ has_edit(localStorage', b[1], b[2])
                     /\ localStorage'[b[1]][b[2]] = localStorage[b[1]][b[2]]]_vars

----------------------------------------------------------------------------
(* Edits on their way back into url.json: export, replacement, next run *)

\* what the runs after the first extract
RoundTripRuns == { <<PaperA, PaperB>>, <<PaperA>> }

InitRoundTrip ==
    /\ \E file \in BrowserFiles :
          PipelineAt(RunAt("write", html_for(<<PaperA, PaperB>>),
                           [url_json |-> file, debug_raw |-> NoDebug,
                            papers_html |-> NoPage]))
    /\ BrowserClosed

\* the edit buttons the user clicks, and what the user types
RoundTripButtons == { <<pid_of(PaperA), "url">>, <<pid_of(PaperB), "url">> }

RoundTripTyped == { <<" ", "v", " ">> }

NextRoundTrip ==
    \/ main_write_urls_json
    \/ main_generate_html
    \/ \E ps \in RoundTripRuns : next_run(ps)
    \/ replace_sidecar
    \/ load_page("tab1")
    \/ \E b \in RoundTripButtons : openEditModal("tab1", b[1], b[2])
    \/ \E typed \in RoundTripTyped : saveEdit_getItem("tab1", typed)
    \/ saveEdit_setItem("tab1")
    \/ exportToJson("tab1")

SpecRoundTrip == InitRoundTrip /\ [][NextRoundTrip]_vars

\* the records of file with the id pid
RecordsOf(file, pid) ==
    { k \in DOMAIN file.items : file.items[k].id = Str(pid) }

\* url or abstract of pid in file, empty when the file has no record for it
ValueIn(file, pid, field) ==
    IF RecordsOf(file, pid) = {} THEN <<>>
    ELSE StoredText(file.items[CHOOSE k \in RecordsOf(file, pid) : TRUE][field])

\* the last edit saved was not blank and was saved while url.json had a
\* record for its paper (the page shown was the page of that url.json); the
\* download is the export of url.json as it was then and of the edits as
\* the save left them; the run found the download in the place of
\* url.json, still extracted the paper of the edit, and has written url.json
RoundTrip ==
    /\ SidecarWritten
    /\ last_save.paperId # Null
    /\ last_save.value # <<>>
    /\ last_save.url_json.kind = "list"
    /\ RecordsOf(last_save.url_json, last_save.paperId) # {}
    /\ download = File("list", [k \in DOMAIN last_save.url_json.items |->
                                   merge_entry(last_save.url_json.items[k],
                                               last_save.edits)])
    /\ old.url_json = download
    /\ \E k \in DOMAIN papers : pid_of(papers[k]) = last_save.paperId

\* the written url.json and the page hold the saved value for the paper of
\* the edit
RoundTripKeepsEdit ==
    /\ RecordsOf(url_json, last_save.paperId) # {}
    /\ \A k \in RecordsOf(url_json, last_save.paperId) :
          url_json.items[k][last_save.field] = Str(last_save.value)
    /\ pc = "done" =>
          \E k \in DOMAIN Cards(papers_html.page) :
              /\ Cards(papers_html.page)[k].pid = last_save.paperId
              /\ Cards(papers_html.page)[k][last_save.field] = last_save.value

----------------------------------------------------------------------------
(* What saveEdit may change *)

\* the stored entry of (paperId, field): <<value>>, or <<>> when there is none
EntryOf(edits, paperId, field) ==
    IF has_edit(edits, paperId, field) THEN <<edits[paperId][field]>> ELSE <<>>

NoTarget == [paperId |-> Null, field |-> Null]

\* the step of tab t leaves every stored entry but that of `target` as it was
OnlyChanges(target) ==
    \A paperId \in DOMAIN localStorage \cup DOMAIN localStorage', field \in Fields :
        [paperId |-> paperId, field |-> field] # target
        => EntryOf(localStorage', paperId, field) = EntryOf(localStorage, paperId, field)

\* C21: in one page, whatever the order of openEditModal, closeEditModal and
\* saveEdit, the current edit target is the target of the latest openEditModal
\* not since closed or saved; saveEdit changes at most the stored entry of that
\* target and no other (paper, field) entry; with no target (at load, after a
\* cancel, after a save) saveEdit returns at once and changes nothing; every
\* save and every cancel clears the target and hides the modal; nothing but a
\* completed saveEdit changes local storage
C21_SaveChangesOnlyItsTarget ==
    /\ [](\A t \in Tabs :
            /\ tabs[t].currentEdit = NoTarget
               => \A typed \in Typed : ~ENABLED saveEdit_getItem(t, typed)
            /\ tabs[t].pc = "saving" => /\ tabs[t].currentEdit.paperId # Null
                                        /\ tabs[t].currentEdit.field # Null
                                        /\ tabs[t].modal
            /\ ~tabs[t].loaded => tabs[t].currentEdit = NoTarget)
    /\ [][/\ \A t \in Tabs :
               /\ \A b \in EditButtons :
                     openEditModal(t, b[1], b[2])
                     => tabs'[t].currentEdit = [paperId |-> b[1], field |-> b[2]]
               /\ (closeEditModal(t) \/ saveEdit_setItem(t))
                  => tabs'[t].currentEdit = NoTarget /\ ~tabs'[t].modal
               /\ saveEdit_setItem(t) => OnlyChanges(tabs[t].currentEdit)
               /\ tabs'[t].currentEdit # tabs[t].currentEdit
                  => \/ \E b \in EditButtons : openEditModal(t, b[1], b[2])
                     \/ closeEditModal(t)
                     \/ saveEdit_setItem(t)
                     \/ load_page(t)
          /\ localStorage' # localStorage => \E t \in Tabs : saveEdit_setItem(t)]_vars

\* two saves have run in a page whose local storage held an edit of a paper
\* that is not on the page: all three entries are stored and no target is left
C21_Witness ==
    /\ tabs["tab1"].loaded
    /\ tabs["tab1"].pc = "idle"
    /\ tabs["tab1"].currentEdit = NoTarget
    /\ last_save.paperId = pid_of(PaperA)
    /\ last_save.field = "url"
    /\ localStorage = last_save.edits
    /\ EntryOf(localStorage, pid_of(PaperA), "url") = << <<"v">> >>
    /\ EntryOf(localStorage, pid_of(PaperA), "abstract") = << <<>> >>
    /\ EntryOf(localStorage, pid_of(PaperC), "url") = << <<"v">> >>
----------------------------------------------------------------------------
(* One run of main from start to end *)

\* what a request returns when it succeeds: nothing, or a paper
RunBodies == { <<>>, html_for(<<PaperA>>) }

\* the url.json the run finds: none, unparseable, a scalar, a list, an object
RunSidecars ==
    { AbsentFile, File("bad", <<>>), File("scalar", <<>>),
      File("list", <<Record("papers_0042", OldTitle, OldSession, Str(<<"u">>), Str(<<>>))>>),
      File("map", <<Record("papers_0042", OldTitle, OldSession, Str(<<"u">>), Str(<<>>))>>) }

\* the files the run finds: a sidecar alone, or the three files of an earlier run
RunFiles ==
    { [url_json |-> file, debug_raw |-> NoDebug, papers_html |-> NoPage] :
        file \in RunSidecars }
    \cup { [url_json |-> File("list", <<>>),
            debug_raw |-> [exists |-> TRUE, content |-> <<TextChunk>>],
            papers_html |-> [exists |-> TRUE, page |-> generate_html(<<>>, AbsentFile)]] }

InitRun ==
    /\ pc = "fetch"
    /\ i = 1
    /\ all_html = <<>>
    /\ log = <<>>
    /\ papers = <<>>
    /\ papers_by_session = <<>>
    /\ \E files \in RunFiles :
          /\ url_json = files.url_json
          /\ debug_raw = files.debug_raw
          /\ papers_html = files.papers_html
          /\ old = files
    /\ written = <<>>
    /\ rerun = FALSE
    /\ BrowserClosed

NextRun ==
    \/ \E body \in RunBodies : fetch_ok(body)
    \/ \E error \in FetchErrors : fetch_error(error)
    \/ fetch_return
    \/ main_abort
    \/ main_save_debug
    \/ main_extract
    \/ main_group
    \/ main_write_urls_json
    \/ main_generate_html

\* main is one sequential process: the statement it stands at is executed,
\* and every request ends, with a body or with an exception (timeout=30)
SpecRun == InitRun /\ [][NextRun]_vars /\ WF_vars(NextRun)

----------------------------------------------------------------------------
(* Termination of a run *)

Aborted == pc = "aborted"

Completed == pc = "done"

AllOutputs == <<"debug_raw.html", "url.json", "papers.html">>

\* C22: every run ends, whichever requests fail and whatever url.json holds,
\* and it ends in one of two states: aborted, when no request gave any text,
\* with nothing written and the files as the run found them; or completed,
\* with debug_raw.html, url.json and papers.html written in that order.  The
\* run stops nowhere else: once url.json is written the page is written too
C22_RunEndsAbortedOrComplete ==
    /\ <>(Aborted \/ Completed)
    /\ [](~ENABLED NextRun <=> (Aborted \/ Completed))
    /\ [](Aborted => /\ NoData
                     /\ written = <<>>
                     /\ Files = old)
    /\ [](Completed => /\ ~NoData
                       /\ written = AllOutputs
                       /\ debug_raw = [exists |-> TRUE, content |-> all_html]
                       /\ url_json = write_urls_json(papers_by_session, old.url_json)
                       /\ papers_html = [exists |-> TRUE,
                                         page |-> generate_html(papers_by_session, url_json)])
    /\ [](\E n \in 0..Len(AllOutputs) : written = SubSeq(AllOutputs, 1, n))
    /\ []("url.json" \in Range(written) /\ "papers.html" \notin Range(written)
            => ENABLED main_generate_html)

\* a run that found a url.json holding a scalar, lost some requests and got a
\* paper from another, has completed
C22_Witness ==
    /\ Completed
    /\ old.url_json.kind = "scalar"
    /\ \E k \in DOMAIN log : ~log[k].ok
    /\ ~log[Len(DATES)].ok
    /\ Len(papers) = 1
    /\ written = AllOutputs
====
